---- MODULE Spec2Model ----
(***************************************************************************)
(* The Prometheus discovery endpoints of erlenmeyer (proto/prom/find.go):  *)
(* translation of Prometheus label matchers into a Warp10 selector         *)
(* (processMatchers), the clamp of the start time (applyTimeRangeLimits),  *)
(* and the handlers FindSeries, FindLabelsValues, FindLabels,              *)
(* FindClassnames, FindClassnamesHandler and handleSeriesPost.             *)
(*                                                                         *)
(* Two revisions of find.go are in the sources: src/proto/prom/find.go and *)
(* the later one in src/unnamed/part_000 (lines 599-1181). Where they      *)
(* differ the model carries both, selected by the variable rev.            *)
(*                                                                         *)
(* Strings are TLA+ strings (\o is concatenation, Len the length).  Time   *)
(* is counted in hours: a time.Time is the number of hours since the Unix  *)
(* epoch and a time.Duration a number of hours.                            *)
(***************************************************************************)
EXTENDS Integers, Sequences, FiniteSets, Bags, TLC

(***************************************************************************)
(* Bounds of the model.                                                    *)
(***************************************************************************)
\* longest matcher list handed to processMatchers
MaxMatchers == 2
\* the clock (hours since the epoch) when applyTimeRangeLimits first reads it
Epoch == 1000
\* most hours the clock advances between the two time.Now() calls
MaxTick == 1
\* most match[] expressions in one request
MaxExprs == 2
\* most series in one answer of the backend
MaxRecords == 2

(***************************************************************************)
(* Program constants.                                                      *)
(***************************************************************************)
\* 24 * time.Hour
DefaultMinHours == 24
\* 7 * 24 * time.Hour
DefaultMaxHours == 168

\* the shortest name value FindClassnames accepts
MinNameLength == 7
DEFAULT_METRIC_SELECTOR_GCOUNT == 100

DEFAULT_METRIC_SELECTOR == "(http|prometheus).*"

NameLabel == "__name__"

\* labels.MatchType.String()
MatchEqual == "="
MatchNotEqual == "!="
MatchRegexp == "=~"
MatchNotRegexp == "!~"
MatchTypes == {MatchEqual, MatchNotEqual, MatchRegexp, MatchNotRegexp}

VARIABLES
    \* processMatchers: its argument, how many matchers the range loop has
    \* consumed, its two locals (after the return: the two values the caller
    \* got), where it is ("call" | "range" | "returned"), and the argument and
    \* the result of the call before this one
    pmMatchers, pmIdx, pmClassName, pmLabels, pmPc, pmPrev,
    \* applyTimeRangeLimits: the two configuration strings, the argument,
    \* the two clock readings, the parsed durations, the value returned and
    \* where it is ("call" | "returned")
    cfgMin, cfgMax, atStart, atNow1, atNow2, atMin, atMax, atResult, atPc,
    \* one request: the revision of find.go that serves it, the handler it
    \* entered, its token, its match[] values, its label parameter and its
    \* start parameter
    rev, handler, token, form, label, start,
    \* the handler's locals: the expressions the query loop ranges over, how
    \* many it has consumed, startTime, params.GCount and what it has
    \* accumulated (resp, labelSet)
    matchers, idx, startTime, gcount, acc,
    \* every FindGTS call made so far, the response written, and where the
    \* handler is ("idle" | "query" | "done")
    calls, resp, pc

pmVars == <<pmMatchers, pmIdx, pmClassName, pmLabels, pmPc, pmPrev>>
atVars == <<cfgMin, cfgMax, atStart, atNow1, atNow2, atMin, atMax, atResult, atPc>>
reqVars == <<rev, handler, token, form, label, start>>
hVars == <<reqVars, matchers, idx, startTime, gcount, acc, calls, resp, pc>>
vars == <<pmVars, atVars, hVars>>

(***************************************************************************)
(* Go maps: a map[string]string is a function whose domain is its key set. *)
(***************************************************************************)
EmptyMap == [k \in {} |-> ""]

MapPut(m, k, v) == [x \in (DOMAIN m) \cup {k} |-> IF x = k THEN v ELSE m[x]]

(***************************************************************************)
(* processMatchers                                                         *)
(***************************************************************************)
MatcherNames == {NameLabel, "env", "region"}
MatcherValues == {"prod", "prod|dev", "test_metric"}

Matchers == [Name : MatcherNames, Value : MatcherValues, Type : MatchTypes]

RECURSIVE SeqsUpTo(_, _)
SeqsUpTo(S, n) ==
    IF n = 0 THEN {<<>>}
    ELSE LET shorter == SeqsUpTo(S, n - 1)
         IN  shorter \cup {Append(s, x) : s \in {t \in shorter : Len(t) = n - 1}, x \in S}

MatcherLists == SeqsUpTo(Matchers, MaxMatchers)

\* A plausible slip: the negated operators get the plain regex prefix.
EncodeValueNoNegation(type, value) ==
    IF type \in {MatchRegexp, MatchNotEqual, MatchNotRegexp} THEN "~" \o value ELSE value

\* the switch on matcher.Type.String()
EncodeValue(type, value) ==
    CASE type = MatchRegexp -> "~" \o value
      [] type \in {MatchNotEqual, MatchNotRegexp} -> "~(?!" \o value \o ").*"
      [] OTHER -> value

\* A plausible slip: className and labels are package-level variables that a
\* call does not reset.
ProcessMatchersStartKept == [className |-> pmClassName, labels |-> pmLabels]

\* A plausible slip: the value of a name matcher is encoded by its operator
\* like the value of any other matcher.
ProcessMatcherEncodesName(st, matcher) ==
    IF matcher.Name = NameLabel
    THEN [className |-> EncodeValue(matcher.Type, matcher.Value), labels |-> st.labels]
    ELSE [className |-> st.className,
          labels |-> MapPut(st.labels, matcher.Name,
                            EncodeValue(matcher.Type, matcher.Value))]

\* A plausible slip: the name matcher is also stored in the label map.
ProcessMatcherKeepsName(st, matcher) ==
    IF matcher.Name = NameLabel
    THEN [className |-> matcher.Value,
          labels |-> MapPut(st.labels, matcher.Name, matcher.Value)]
    ELSE [className |-> st.className,
          labels |-> MapPut(st.labels, matcher.Name,
                            EncodeValue(matcher.Type, matcher.Value))]

\* A plausible slip: an entry already present is not overwritten (first wins).
ProcessMatcherFirstWins(st, matcher) ==
    IF matcher.Name = NameLabel
    THEN [className |-> IF st.className = "" THEN matcher.Value ELSE st.className,
          labels |-> st.labels]
    ELSE [className |-> st.className,
          labels |-> IF matcher.Name \in DOMAIN st.labels
                     THEN st.labels
                     ELSE MapPut(st.labels, matcher.Name,
                                 EncodeValue(matcher.Type, matcher.Value))]

\* one iteration of the range loop, on the locals st = (className, labels)
ProcessMatcher(st, matcher) ==
    IF matcher.Name = NameLabel
    THEN [className |-> matcher.Value, labels |-> st.labels]
    ELSE [className |-> st.className,
          labels |-> MapPut(st.labels, matcher.Name,
                            EncodeValue(matcher.Type, matcher.Value))]

\* the locals before the loop
ProcessMatchersStart == [className |-> "", labels |-> EmptyMap]

RECURSIVE ProcessMatchersFrom(_, _, _)
ProcessMatchersFrom(st, ms, i) ==
    IF i > Len(ms) THEN st
    ELSE ProcessMatchersFrom(ProcessMatcher(st, ms[i]), ms, i + 1)

\* the whole function: (className, labels)
processMatchers(ms) == ProcessMatchersFrom(ProcessMatchersStart, ms, 1)

\* no call has been made before this one
NoCall == [matchers |-> <<>>, className |-> "none", labels |-> EmptyMap]

\* inputs of TestProcessMatchers that a second call is made on: "empty
\* matchers" and one label matcher
RepeatInputs == {<<>>, <<[Name |-> "env", Value |-> "prod", Type |-> MatchEqual]>>}

\* the function is entered: className := "", labels := make(map[string]string)
processMatchersEnter ==
    /\ pmPc = "call"
    /\ pmClassName' = ProcessMatchersStart.className
    /\ pmLabels' = ProcessMatchersStart.labels
    /\ pmIdx' = 0
    /\ pmPc' = "range"
    /\ UNCHANGED <<pmMatchers, pmPrev, atVars, hVars>>

\* the range loop takes the next matcher
processMatchersIter ==
    /\ pmPc = "range"
    /\ pmIdx < Len(pmMatchers)
    /\ LET st == ProcessMatcher([className |-> pmClassName, labels |-> pmLabels],
                                pmMatchers[pmIdx + 1])
       IN  /\ pmClassName' = st.className
           /\ pmLabels' = st.labels
    /\ pmIdx' = pmIdx + 1
    /\ UNCHANGED <<pmMatchers, pmPc, pmPrev, atVars, hVars>>

\* return className, labels
processMatchersReturn ==
    /\ pmPc = "range"
    /\ pmIdx = Len(pmMatchers)
    /\ pmPc' = "returned"
    /\ UNCHANGED <<pmMatchers, pmIdx, pmClassName, pmLabels, pmPrev, atVars, hVars>>

\* the caller keeps what it got and calls once more, on the same list or on
\* one of RepeatInputs (the loop over the cases of TestProcessMatchers)
processMatchersAgain ==
    /\ pmPc = "returned"
    /\ pmPrev = NoCall
    /\ pmPrev' = [matchers |-> pmMatchers, className |-> pmClassName, labels |-> pmLabels]
    /\ pmMatchers' \in {pmMatchers} \cup RepeatInputs
    /\ pmIdx' = 0
    /\ pmPc' = "call"
    /\ UNCHANGED <<pmClassName, pmLabels, atVars, hVars>>

(***************************************************************************)
(* applyTimeRangeLimits                                                    *)
(***************************************************************************)
Digits == <<"0", "1", "2", "3", "4", "5", "6", "7", "8", "9">>

IsDigit(c) == \E d \in 1..10 : Digits[d] = c

DigitValue(c) == (CHOOSE d \in 1..10 : Digits[d] = c) - 1

RECURSIVE ParseDigits(_, _)
\* the value of the leading digits of s after the value sofar, and what follows them
ParseDigits(s, sofar) ==
    IF s # "" /\ IsDigit(Head(s))
    THEN ParseDigits(Tail(s), 10 * sofar + DigitValue(Head(s)))
    ELSE [value |-> sofar, rest |-> s]

\* time.ParseDuration on strings of whole hours: [+-]?digits "h"; all else is an error
ParseDuration(s) ==
    LET neg == s # "" /\ Head(s) = "-"
        body == IF s # "" /\ Head(s) \in {"-", "+"} THEN Tail(s) ELSE s
        num == ParseDigits(body, 0)
    IN  IF body # "" /\ IsDigit(Head(body)) /\ num.rest = "h"
        THEN [err |-> FALSE, d |-> IF neg THEN 0 - num.value ELSE num.value]
        ELSE [err |-> TRUE, d |-> 0]

\* A plausible slip: only the upper limit is applied.
ClampUpperOnly(t, minAllowedTime, maxAllowedTime) ==
    IF t > maxAllowedTime THEN maxAllowedTime ELSE t

\* A plausible slip: the two limits are applied to the wrong ends.
ClampSwapped(t, minAllowedTime, maxAllowedTime) ==
    IF t < minAllowedTime THEN maxAllowedTime
    ELSE IF t > maxAllowedTime THEN minAllowedTime
    ELSE t

\* "Apply the limits"
Clamp(t, minAllowedTime, maxAllowedTime) ==
    IF t < minAllowedTime THEN minAllowedTime
    ELSE IF t > maxAllowedTime THEN maxAllowedTime
    ELSE t

\* A plausible slip: after a parse error the zero duration is kept.
DurationOrZero(str, default) == ParseDuration(str).d

\* the duration used for a configuration string
DurationOrDefault(str, default) ==
    LET p == ParseDuration(str) IN IF p.err THEN default ELSE p.d

\* the value returned for the start time t with the clock read as now1 and then as now2
ApplyTimeRangeLimits(t, minStr, maxStr, now1, now2) ==
    LET minDuration == DurationOrDefault(minStr, DefaultMinHours)
        maxDuration == DurationOrDefault(maxStr, DefaultMaxHours)
    IN  Clamp(t, now1 - maxDuration, now2 - minDuration)

\* values of warp10.find.activeafter.min / .max
ConfigStrings == {"24h", "168h", "1h", "200h", "7d", ""}

\* requested start times, as hours before (or after) the first clock reading
StartOffsets == {-720, -200, -169, -168, -167, -72, -25, -24, -23, -1, 0, 5}

applyTimeRangeLimits ==
    /\ atPc = "call"
    /\ atMin' = DurationOrDefault(cfgMin, DefaultMinHours)
    /\ atMax' = DurationOrDefault(cfgMax, DefaultMaxHours)
    /\ \E tick \in 0..MaxTick :
          /\ atNow2' = atNow1 + tick
          /\ atResult' = ApplyTimeRangeLimits(atStart, cfgMin, cfgMax, atNow1, atNow1 + tick)
    /\ atPc' = "returned"
    /\ UNCHANGED <<cfgMin, cfgMax, atStart, atNow1, pmVars, hVars>>

(***************************************************************************)
(* What the handlers call: the matcher parser, the selector builder, the   *)
(* backend and the response writers                                        *)
(***************************************************************************)
\* time.Time{}, the zero time (year 1), in hours since the Unix epoch
ZeroTime == -17259888

Revisions == {"find.go", "part_000"}

\* core.RetrieveToken(r)
Tokens == {"", "READ"}

\* raw match[] values
ExprBad == "{"
ExprEnv == "{env='prod'}"
ExprShort == "{__name__='abc'}"
ExprGood == "{__name__='abcdefg',env!='prod'}"
\* a name of six characters between two spaces
ExprPadded == "{__name__=' abcdef '}"

\* the expression FindClassnames substitutes for an empty match[]
ExprDefault == "{__name__=~'" \o DEFAULT_METRIC_SELECTOR \o "'}"

UserExprs == {ExprBad, ExprEnv, ExprShort, ExprGood, ExprPadded}

\* r.Form["match[]"]
Forms == SeqsUpTo(UserExprs, MaxExprs)

\* queryPromql.ParseMetricSelector: (matchers, err)
ParseMetricSelector(s) ==
    CASE s = ExprEnv ->
            [err |-> "",
             matchers |-> <<[Name |-> "env", Value |-> "prod", Type |-> MatchEqual]>>]
      [] s = ExprShort ->
            [err |-> "",
             matchers |-> <<[Name |-> NameLabel, Value |-> "abc", Type |-> MatchEqual]>>]
      [] s = ExprGood ->
            [err |-> "",
             matchers |-> <<[Name |-> NameLabel, Value |-> "abcdefg", Type |-> MatchEqual],
                            [Name |-> "env", Value |-> "prod", Type |-> MatchNotEqual]>>]
      [] s = ExprPadded ->
            [err |-> "",
             matchers |-> <<[Name |-> NameLabel, Value |-> " abcdef ", Type |-> MatchEqual]>>]
      [] s = ExprDefault ->
            [err |-> "",
             matchers |-> <<[Name |-> NameLabel, Value |-> DEFAULT_METRIC_SELECTOR,
                             Type |-> MatchRegexp]>>]
      [] OTHER -> [err |-> "parse error: unexpected end of input", matchers |-> <<>>]

\* the label names a selector can hold, in lexical order
SelectorLabelOrder == <<"env", "host", "region">>

RECURSIVE JoinLabels(_, _, _)
\* "name=constraint" for names[i..], comma separated
JoinLabels(labels, names, i) ==
    IF i > Len(names) THEN ""
    ELSE names[i] \o "=" \o labels[names[i]]
         \o (IF i < Len(names) THEN "," ELSE "")
         \o JoinLabels(labels, names, i + 1)

\* buildWarp10Selector(className, labels).String()
buildWarp10Selector(className, labels) ==
    LET present(n) == n \in DOMAIN labels
    IN  (IF className = "" THEN "~.*" ELSE className)
        \o "{" \o JoinLabels(labels, SelectSeq(SelectorLabelOrder, present), 1) \o "}"

\* series of the backend: core.GeoTimeSeries
GTS1 == [Class |-> "cpu",
         Labels |-> ("env" :> "prod" @@ ".app" :> "a1"),
         Attrs |-> ("owner" :> "ops")]
GTS2 == [Class |-> "mem",
         Labels |-> ("env" :> "prod" @@ "host" :> "h1"),
         Attrs |-> EmptyMap]

GTSUniverse == {GTS1, GTS2}

BackendErrors == {"warp10: read timeout", "warp10: token revoked"}

\* what warpServer.FindGTS can return: (gtss, err)
Replies ==
    {[err |-> "", GTS |-> g] : g \in SeqsUpTo(GTSUniverse, MaxRecords)}
    \cup {[err |-> e, GTS |-> <<>>] : e \in BackendErrors}

\* A plausible slip: the error FindGTS returns is not looked at.
QueryFailedNever(reply) == FALSE

\* "if err != nil" after warpServer.FindGTS
QueryFailed(reply) == reply.err # ""

\* the record of one FindGTS call: its arguments and what it returned
Call(selector, start_, gcount_, reply) ==
    [selector |-> selector, start |-> start_, gcount |-> gcount_, reply |-> reply]

RECURSIVE unique(_)
\* unique: the values of s once each, in the order of their first occurrence
unique(s) ==
    IF s = <<>> THEN <<>>
    ELSE LET front == unique(SubSeq(s, 1, Len(s) - 1))
             last == s[Len(s)]
         IN  IF \E k \in 1..Len(front) : front[k] = last THEN front ELSE Append(front, last)

NoResponse == [code |-> 0, status |-> "", data |-> <<>>, error |-> ""]

\* a success response with its data
Success(data) == [code |-> 200, status |-> "success", data |-> data, error |-> ""]

\* respondWithError(w, err, code) and ctx.JSON(code, {"error": msg})
Failure(code, msg) == [code |-> code, status |-> "error", data |-> <<>>, error |-> msg]

\* the status for a missing token
Unauthorized(r) ==
    IF r = "find.go"
    THEN Failure(403, "unauthorized, please provide a READ token")
    ELSE Failure(401, "please provide a READ token")

\* a request enters handler h
Enter(r, h, tok, f, l, st) ==
    /\ rev' = r
    /\ handler' = h
    /\ token' = tok
    /\ form' = f
    /\ label' = l
    /\ start' = st

\* the handler answers out without entering its query loop
AnswerAtOnce(out) ==
    /\ resp' = out
    /\ pc' = "done"
    /\ matchers' = <<>>
    /\ idx' = 0
    /\ startTime' = ZeroTime
    /\ gcount' = 0
    /\ acc' = <<>>
    /\ calls' = <<>>

\* the handler enters its query loop over ms
StartQueries(ms, st, gc, acc0) ==
    /\ resp' = NoResponse
    /\ pc' = "query"
    /\ matchers' = ms
    /\ idx' = 0
    /\ startTime' = st
    /\ gcount' = gc
    /\ acc' = acc0
    /\ calls' = <<>>

\* the selector of one match[] expression that parses
SelectorOf(s) ==
    LET pm == processMatchers(ParseMetricSelector(s).matchers)
    IN  buildWarp10Selector(pm.className, pm.labels)

(***************************************************************************)
(* FindSeries                                                              *)
(***************************************************************************)
\* the response record of one series
SeriesData(gts) ==
    LET kept == (DOMAIN gts.Labels) \ {".app"}
    IN  [k \in {NameLabel} \cup kept \cup DOMAIN gts.Attrs |->
            IF k \in DOMAIN gts.Attrs THEN gts.Attrs[k]
            ELSE IF k \in kept THEN gts.Labels[k]
            ELSE gts.Class]

\* the records of all the series of one answer, in order
SeriesDataOf(gtss) == [k \in 1..Len(gtss) |-> SeriesData(gtss[k])]

\* A plausible slip: no match[] is answered like in FindLabels.
NoMatchSeriesEmpty(h) == Success(<<>>)

\* the answer of series discovery (FindSeries, handleSeriesPost) to a request
\* without match[]
NoMatchSeries(h) ==
    IF h = "FindSeries" THEN Failure(422, "no match[] parameter provided")
    ELSE Failure(400, "no match[] parameter provided")

\* FindSeries up to its loop
FindSeries ==
    /\ pc = "idle"
    /\ \E r \in Revisions, tok \in Tokens, f \in Forms :
          /\ Enter(r, "FindSeries", tok, f, "", "")
          /\ IF tok = "" THEN AnswerAtOnce(Unauthorized(r))
             ELSE IF Len(f) = 0
             THEN AnswerAtOnce(NoMatchSeries("FindSeries"))
             ELSE StartQueries(f, ZeroTime, 0, <<>>)
    /\ UNCHANGED <<pmVars, atVars>>

\* one iteration of the loop of FindSeries
FindSeriesQuery ==
    /\ pc = "query"
    /\ handler = "FindSeries"
    /\ idx < Len(matchers)
    /\ LET s == matchers[idx + 1]
           parsed == ParseMetricSelector(s)
       IN  IF parsed.err # ""
           THEN /\ resp' = Failure(422, parsed.err)
                /\ pc' = "done"
                /\ UNCHANGED <<idx, acc, calls>>
           ELSE \E reply \in Replies :
                   /\ calls' = Append(calls, Call(SelectorOf(s), ZeroTime, 0, reply))
                   /\ IF QueryFailed(reply)
                      THEN /\ resp' = Failure(500, reply.err)
                           /\ pc' = "done"
                           /\ UNCHANGED <<idx, acc>>
                      ELSE /\ acc' = acc \o SeriesDataOf(reply.GTS)
                           /\ idx' = idx + 1
                           /\ UNCHANGED <<resp, pc>>
    /\ UNCHANGED <<pmVars, atVars, reqVars, matchers, startTime, gcount>>

\* respondFind(w, resp)
FindSeriesRespond ==
    /\ pc = "query"
    /\ handler = "FindSeries"
    /\ idx = Len(matchers)
    /\ resp' = Success(acc)
    /\ pc' = "done"
    /\ UNCHANGED <<pmVars, atVars, reqVars, matchers, idx, startTime, gcount, acc, calls>>

(***************************************************************************)
(* FindLabelsValues                                                        *)
(***************************************************************************)
\* ctx.Param("label")
LabelParams == {"", NameLabel, "env", "host"}

\* A plausible slip: the last expression is translated instead of the first.
LastExpression(f) == f[Len(f)]

\* matchers[0]
FirstExpression(f) == f[1]

\* A plausible slip: "__name__" is looked up among the labels like any other name.
CollectLabelValuesNoNameCase(gtss, labelValue) ==
    LET has(g) == labelValue \in DOMAIN g.Labels
        picked == SelectSeq(gtss, has)
    IN  [k \in 1..Len(picked) |-> picked[k].Labels[labelValue]]

\* "Process results": resp.Data before unique
CollectLabelValues(gtss, labelValue) ==
    LET has(g) == labelValue = NameLabel \/ labelValue \in DOMAIN g.Labels
        picked == SelectSeq(gtss, has)
    IN  [k \in 1..Len(picked) |->
            IF labelValue = NameLabel THEN picked[k].Class
            ELSE picked[k].Labels[labelValue]]

\* A plausible slip: no match[] is refused like in FindSeries.
NoMatchRefused == Failure(400, "no match[] parameter provided")

\* the response to a request without match[]
NoMatchResponse == Success(<<>>)

\* FindLabelsValues: the whole handler, with the backend's answer to its one call
FindLabelsValues ==
    /\ pc = "idle"
    /\ \E r \in Revisions, tok \in Tokens, f \in Forms, l \in LabelParams, reply \in Replies :
          /\ Enter(r, "FindLabelsValues", tok, f, l, "")
          /\ IF tok = "" THEN AnswerAtOnce(Unauthorized(r))
             ELSE IF l = "" THEN AnswerAtOnce(Failure(400, "unprocessable Entity: label"))
             ELSE IF Len(f) = 0 THEN AnswerAtOnce(NoMatchResponse)
             ELSE IF ParseMetricSelector(FirstExpression(f)).err # ""
             THEN AnswerAtOnce(Failure(400, ParseMetricSelector(FirstExpression(f)).err))
             ELSE /\ calls' = <<Call(SelectorOf(FirstExpression(f)), ZeroTime, 0, reply)>>
                  /\ acc' = IF QueryFailed(reply) THEN <<>> ELSE CollectLabelValues(reply.GTS, l)
                  /\ resp' = IF QueryFailed(reply)
                             THEN Failure(500, reply.err)
                             ELSE Success(unique(CollectLabelValues(reply.GTS, l)))
                  /\ pc' = "done"
                  /\ matchers' = f
                  /\ idx' = 0
                  /\ startTime' = ZeroTime
                  /\ gcount' = 0
    /\ UNCHANGED <<pmVars, atVars>>

(***************************************************************************)
(* FindLabels                                                              *)
(***************************************************************************)
\* the label names one answer adds to labelSet
LabelNamesOf(gtss) ==
    {NameLabel}
    \cup UNION {(DOMAIN gtss[k].Labels) \ {".app"} : k \in 1..Len(gtss)}
    \cup UNION {DOMAIN gtss[k].Attrs : k \in 1..Len(gtss)}

\* "Convert set to slice". The order of a Go map range is not fixed, so the
\* slice is kept as the bag of its elements. find.go makes the slice with
\* length 0; part_000 makes it with length len(labelSet) and appends to it.
LabelsSlice(r, labelSet) ==
    IF r = "find.go" THEN SetToBag(labelSet)
    ELSE IF labelSet = {} THEN EmptyBag
    ELSE SetToBag(labelSet) (+) [e \in {""} |-> Cardinality(labelSet)]

\* FindLabels up to its loop
FindLabels ==
    /\ pc = "idle"
    /\ \E r \in Revisions, tok \in Tokens, f \in Forms :
          /\ Enter(r, "FindLabels", tok, f, "", "")
          /\ IF tok = "" THEN AnswerAtOnce(Unauthorized(r))
             ELSE IF Len(f) = 0 THEN AnswerAtOnce(NoMatchResponse)
             ELSE StartQueries(f, ZeroTime, 0, {})
    /\ UNCHANGED <<pmVars, atVars>>

\* one iteration of the loop of FindLabels
FindLabelsQuery ==
    /\ pc = "query"
    /\ handler = "FindLabels"
    /\ idx < Len(matchers)
    /\ LET s == matchers[idx + 1]
           parsed == ParseMetricSelector(s)
       IN  IF parsed.err # ""
           THEN /\ resp' = Failure(400, "invalid matcher format: " \o parsed.err)
                /\ pc' = "done"
                /\ UNCHANGED <<idx, acc, calls>>
           ELSE \E reply \in Replies :
                   /\ calls' = Append(calls, Call(SelectorOf(s), ZeroTime, 0, reply))
                   /\ IF QueryFailed(reply)
                      THEN /\ resp' = Failure(500, "internal server error while searching for series")
                           /\ pc' = "done"
                           /\ UNCHANGED <<idx, acc>>
                      ELSE /\ acc' = acc \cup LabelNamesOf(reply.GTS)
                           /\ idx' = idx + 1
                           /\ UNCHANGED <<resp, pc>>
    /\ UNCHANGED <<pmVars, atVars, reqVars, matchers, startTime, gcount>>

\* the set becomes the slice of the response
FindLabelsRespond ==
    /\ pc = "query"
    /\ handler = "FindLabels"
    /\ idx = Len(matchers)
    /\ resp' = Success(LabelsSlice(rev, acc))
    /\ pc' = "done"
    /\ UNCHANGED <<pmVars, atVars, reqVars, matchers, idx, startTime, gcount, acc, calls>>

(***************************************************************************)
(* FindClassnames, FindClassnamesHandler and handleSeriesPost              *)
(***************************************************************************)
\* ctx.Param("label") of the route /label/:label/values
UriLabels == {NameLabel, "host"}

\* ctx.QueryParam("start"): absent, not a number, inside and outside the window
StartParams == {"", "x", "900", "999"}

\* strconv.ParseInt(s, 10, 64)
ParseInt(s) ==
    LET neg == s # "" /\ Head(s) = "-"
        body == IF s # "" /\ Head(s) \in {"-", "+"} THEN Tail(s) ELSE s
        num == ParseDigits(body, 0)
    IN  IF body # "" /\ IsDigit(Head(body)) /\ num.rest = ""
        THEN [err |-> FALSE, n |-> IF neg THEN 0 - num.value ELSE num.value]
        ELSE [err |-> TRUE, n |-> 0]

IsSpace(c) == c \in {" ", "\t", "\n", "\r"}

RECURSIVE TrimLeft(_)
TrimLeft(s) == IF s # "" /\ IsSpace(Head(s)) THEN TrimLeft(Tail(s)) ELSE s

RECURSIVE TrimRight(_)
TrimRight(s) ==
    IF s # "" /\ IsSpace(SubSeq(s, Len(s), Len(s)))
    THEN TrimRight(SubSeq(s, 1, Len(s) - 1))
    ELSE s

\* A plausible slip: the raw value is measured.
TrimSpaceNot(s) == s

\* strings.TrimSpace
TrimSpace(s) == TrimRight(TrimLeft(s))

RECURSIVE NameCheckFrom(_, _, _, _)
\* "Look for __name__ matcher" over ms[i..]: the error, or "" when there is none
NameCheckFrom(r, ms, i, hasNameMatcher) ==
    IF i > Len(ms)
    THEN IF hasNameMatcher THEN "" ELSE "query must include a matcher for __name__"
    ELSE IF ms[i].Name # NameLabel THEN NameCheckFrom(r, ms, i + 1, hasNameMatcher)
    ELSE IF r = "part_000" /\ ms[i].Value = DEFAULT_METRIC_SELECTOR
    THEN NameCheckFrom(r, ms, i + 1, TRUE)
    ELSE IF Len(TrimSpace(ms[i].Value)) < MinNameLength
    THEN IF r = "find.go" THEN "Search must contain at least 3 characters"
         ELSE "search must contain at least 3 characters"
    ELSE NameCheckFrom(r, ms, i + 1, TRUE)

RECURSIVE ValidateFromParseIgnored(_, _, _)
\* A plausible slip: the parser's error is dropped here as it is in the query loop.
ValidateFromParseIgnored(r, exprs, i) ==
    IF i > Len(exprs) THEN ""
    ELSE LET parsed == ParseMetricSelector(exprs[i])
             nameError == NameCheckFrom(r, parsed.matchers, 1, FALSE)
         IN  IF parsed.err # "" THEN ValidateFromParseIgnored(r, exprs, i + 1)
             ELSE IF nameError # "" THEN nameError
             ELSE ValidateFromParseIgnored(r, exprs, i + 1)

RECURSIVE ValidateFrom(_, _, _)
\* "Process each matcher" over exprs[i..]: the first error, or ""
ValidateFrom(r, exprs, i) ==
    IF i > Len(exprs) THEN ""
    ELSE LET parsed == ParseMetricSelector(exprs[i])
             nameError == NameCheckFrom(r, parsed.matchers, 1, FALSE)
         IN  IF parsed.err # "" THEN "invalid matcher format: " \o parsed.err
             ELSE IF nameError # "" THEN nameError
             ELSE ValidateFrom(r, exprs, i + 1)

\* the handler calls applyTimeRangeLimits(t); the clock advances by tick meanwhile
CallTimeRangeLimits(t, tick) ==
    /\ atStart' = t
    /\ atNow1' = Epoch
    /\ atNow2' = Epoch + tick
    /\ atMin' = DurationOrDefault(cfgMin, DefaultMinHours)
    /\ atMax' = DurationOrDefault(cfgMax, DefaultMaxHours)
    /\ atResult' = ApplyTimeRangeLimits(t, cfgMin, cfgMax, Epoch, Epoch + tick)
    /\ atPc' = "returned"
    /\ UNCHANGED <<cfgMin, cfgMax>>

\* startTime after "Get time parameters" in part_000
ClampedStart(st, tick) ==
    IF st = "" THEN ZeroTime
    ELSE ApplyTimeRangeLimits(ParseInt(st).n, cfgMin, cfgMax, Epoch, Epoch + tick)

\* "Get time parameters" in part_000, for a start parameter that parses
GetTimeParameters(st, tick) ==
    IF st = "" THEN UNCHANGED atVars ELSE CallTimeRangeLimits(ParseInt(st).n, tick)

\* FindClassnames of part_000 up to its query loop
FindClassnamesCore(f, st) ==
    LET ms == IF Len(f) = 0 THEN <<ExprDefault>> ELSE f
        gc == IF Len(f) = 0 THEN DEFAULT_METRIC_SELECTOR_GCOUNT ELSE 0
        invalid == ValidateFrom("part_000", ms, 1)
    IN  IF invalid # "" THEN AnswerAtOnce(Failure(400, invalid))
        ELSE StartQueries(ms, st, gc, <<>>)

\* FindClassnames of find.go up to its query loop
FindClassnames ==
    /\ pc = "idle"
    /\ \E tok \in Tokens, f \in Forms, l \in UriLabels, st \in StartParams :
          /\ Enter("find.go", "FindClassnames", tok, f, l, st)
          /\ IF tok = "" THEN AnswerAtOnce(Unauthorized("find.go"))
             ELSE IF Len(f) = 0 THEN AnswerAtOnce(NoMatchResponse)
             ELSE IF ValidateFrom("find.go", f, 1) # ""
             THEN AnswerAtOnce(Failure(400, ValidateFrom("find.go", f, 1)))
             ELSE IF st # "" /\ ParseInt(st).err
             THEN AnswerAtOnce(Failure(400, "failed to parse start time"))
             ELSE StartQueries(f, IF st = "" THEN ZeroTime ELSE ParseInt(st).n, 0, <<>>)
    /\ UNCHANGED <<pmVars, atVars>>

\* FindClassnamesHandler up to the query loop of FindClassnames
FindClassnamesHandler ==
    /\ pc = "idle"
    /\ \E tok \in Tokens, f \in Forms, l \in UriLabels, st \in StartParams, tick \in 0..MaxTick :
          /\ Enter("part_000", "FindClassnamesHandler", tok, f, l, st)
          /\ IF tok = ""
             THEN AnswerAtOnce(Unauthorized("part_000")) /\ UNCHANGED atVars
             ELSE IF st # "" /\ ParseInt(st).err
             THEN AnswerAtOnce(Failure(400, "failed to parse start time")) /\ UNCHANGED atVars
             ELSE GetTimeParameters(st, tick) /\ FindClassnamesCore(f, ClampedStart(st, tick))
    /\ UNCHANGED pmVars

\* handleSeriesPost up to the query loop of FindClassnames
handleSeriesPost ==
    /\ pc = "idle"
    /\ \E tok \in Tokens, f \in Forms, st \in StartParams, tick \in 0..MaxTick :
          /\ Enter("part_000", "handleSeriesPost", tok, f, "", st)
          /\ IF Len(f) = 0
             THEN AnswerAtOnce(NoMatchSeries("handleSeriesPost")) /\ UNCHANGED atVars
             ELSE IF tok = ""
             THEN AnswerAtOnce(Unauthorized("part_000")) /\ UNCHANGED atVars
             ELSE IF st # "" /\ ParseInt(st).err
             THEN AnswerAtOnce(Failure(400, "failed to parse start time: invalid syntax"))
                  /\ UNCHANGED atVars
             ELSE GetTimeParameters(st, tick) /\ FindClassnamesCore(f, ClampedStart(st, tick))
    /\ UNCHANGED pmVars

\* the start time FindGTS is given: find.go passes startTime, part_000 passes
\* params, which holds no start time
QueryStart(r, st) == IF r = "find.go" THEN st ELSE ZeroTime

\* A plausible slip: the built selector is sent as it is.
ClassnamesSelectorAsBuilt(s, uriLabel) ==
    LET pm == processMatchers(ParseMetricSelector(s).matchers)
        labels == IF uriLabel # "" /\ uriLabel # NameLabel
                  THEN MapPut(pm.labels, uriLabel, "~.*")
                  ELSE pm.labels
    IN  buildWarp10Selector(pm.className, labels)

\* the selector FindClassnames sends for expression s
ClassnamesSelector(s, uriLabel) ==
    LET pm == processMatchers(ParseMetricSelector(s).matchers)
        labels == IF uriLabel # "" /\ uriLabel # NameLabel
                  THEN MapPut(pm.labels, uriLabel, "~.*")
                  ELSE pm.labels
    IN  "~" \o buildWarp10Selector(pm.className, labels)

\* the class names of an answer, in order
ClassesOf(gtss) == [k \in 1..Len(gtss) |-> gtss[k].Class]

\* one iteration of the query loop of FindClassnames (both revisions)
FindClassnamesQuery ==
    /\ pc = "query"
    /\ handler \in {"FindClassnames", "FindClassnamesHandler", "handleSeriesPost"}
    /\ idx < Len(matchers)
    /\ \E reply \in Replies :
          /\ calls' = Append(calls, Call(ClassnamesSelector(matchers[idx + 1], label),
                                         QueryStart(rev, startTime), gcount, reply))
          /\ IF QueryFailed(reply)
             THEN /\ resp' = Failure(500, "internal server error while searching for series")
                  /\ pc' = "done"
                  /\ UNCHANGED <<idx, acc>>
             ELSE /\ acc' = acc \o (IF rev = "find.go" THEN ClassesOf(reply.GTS) ELSE reply.GTS)
                  /\ idx' = idx + 1
                  /\ UNCHANGED <<resp, pc>>
    /\ UNCHANGED <<pmVars, atVars, reqVars, matchers, startTime, gcount>>

\* find.go: resp.Data = unique(resp.Data)
FindClassnamesRespond ==
    /\ pc = "query"
    /\ handler = "FindClassnames"
    /\ idx = Len(matchers)
    /\ resp' = Success(unique(acc))
    /\ pc' = "done"
    /\ UNCHANGED <<pmVars, atVars, reqVars, matchers, idx, startTime, gcount, acc, calls>>

\* part_000: the handler keeps each class name once
FindClassnamesHandlerRespond ==
    /\ pc = "query"
    /\ handler = "FindClassnamesHandler"
    /\ idx = Len(matchers)
    /\ resp' = Success(unique(ClassesOf(acc)))
    /\ pc' = "done"
    /\ UNCHANGED <<pmVars, atVars, reqVars, matchers, idx, startTime, gcount, acc, calls>>

\* the response record handleSeriesPost builds for one series
PostSeriesLabels(gts) ==
    [k \in {NameLabel} \cup DOMAIN gts.Labels |->
        IF k \in DOMAIN gts.Labels THEN gts.Labels[k] ELSE gts.Class]

\* "Transform each GeoTimeSeries to the expected Prometheus format"
handleSeriesPostRespond ==
    /\ pc = "query"
    /\ handler = "handleSeriesPost"
    /\ idx = Len(matchers)
    /\ resp' = Success([k \in 1..Len(acc) |-> PostSeriesLabels(acc[k])])
    /\ pc' = "done"
    /\ UNCHANGED <<pmVars, atVars, reqVars, matchers, idx, startTime, gcount, acc, calls>>

(***************************************************************************)
(* Specifications                                                          *)
(***************************************************************************)
pmIdle ==
    /\ pmMatchers = <<>>
    /\ pmIdx = 0
    /\ pmClassName = ""
    /\ pmLabels = EmptyMap
    /\ pmPc = "idle"
    /\ pmPrev = NoCall

atIdle ==
    /\ cfgMin = "24h"
    /\ cfgMax = "168h"
    /\ atStart = 0
    /\ atNow1 = 0
    /\ atNow2 = 0
    /\ atMin = 0
    /\ atMax = 0
    /\ atResult = 0
    /\ atPc = "idle"

hIdle ==
    /\ rev = "find.go"
    /\ handler = ""
    /\ token = ""
    /\ form = <<>>
    /\ label = ""
    /\ start = ""
    /\ matchers = <<>>
    /\ idx = 0
    /\ startTime = ZeroTime
    /\ gcount = 0
    /\ acc = <<>>
    /\ calls = <<>>
    /\ resp = NoResponse
    /\ pc = "idle"

\* processMatchers is called on any matcher list
InitTranslate ==
    /\ pmMatchers \in MatcherLists
    /\ pmIdx = 0
    /\ pmClassName = ""
    /\ pmLabels = EmptyMap
    /\ pmPc = "call"
    /\ pmPrev = NoCall
    /\ atIdle
    /\ hIdle

NextTranslate ==
    \/ processMatchersEnter
    \/ processMatchersIter
    \/ processMatchersReturn
    \/ processMatchersAgain

SpecTranslate == InitTranslate /\ [][NextTranslate]_vars

\* applyTimeRangeLimits is called on any start time under any configuration
InitClamp ==
    /\ cfgMin \in ConfigStrings
    /\ cfgMax \in ConfigStrings
    /\ atNow1 = Epoch
    /\ atStart \in {Epoch + o : o \in StartOffsets}
    /\ atNow2 = Epoch
    /\ atMin = 0
    /\ atMax = 0
    /\ atResult = 0
    /\ atPc = "call"
    /\ pmIdle
    /\ hIdle

NextClamp == applyTimeRangeLimits

SpecClamp == InitClamp /\ [][NextClamp]_vars

\* one request enters one of the handlers
Init ==
    /\ pmIdle
    /\ atIdle
    /\ hIdle

Next ==
    \/ FindSeries
    \/ FindSeriesQuery
    \/ FindSeriesRespond
    \/ FindLabelsValues
    \/ FindLabels
    \/ FindLabelsQuery
    \/ FindLabelsRespond
    \/ FindClassnames
    \/ FindClassnamesHandler
    \/ handleSeriesPost
    \/ FindClassnamesQuery
    \/ FindClassnamesRespond
    \/ FindClassnamesHandlerRespond
    \/ handleSeriesPostRespond

Spec == Init /\ [][Next]_vars

(***************************************************************************)
(* Claims about processMatchers (SpecTranslate)                            *)
(***************************************************************************)
\* the constraint string the encoding rules give for a matcher
ExpectedConstraint(m) ==
    CASE m.Type = MatchEqual -> m.Value
      [] m.Type = MatchRegexp -> "~" \o m.Value
      [] m.Type = MatchNotEqual -> "~(?!" \o m.Value \o ").*"
      [] m.Type = MatchNotRegexp -> "~(?!" \o m.Value \o ").*"

\* the index of the last matcher of ms named n
LastIndexOf(ms, n) ==
    CHOOSE k \in 1..Len(ms) : ms[k].Name = n /\ \A j \in (k + 1)..Len(ms) : ms[j].Name # n

HasName(ms, n) == \E k \in 1..Len(ms) : ms[k].Name = n

\* C1: every matcher whose name is not "__name__" is stored, when the loop
\* processes it, under its label name as the constraint string of its
\* operator: the value itself for Equal, "~" + value for RegexMatch and
\* "~(?!" + value + ").*" for NotEqual and RegexNotMatch; the entry is still
\* there at return unless a later matcher has the same name.
C1_ConstraintStored ==
    /\ pmIdx > 0 =>
          LET m == pmMatchers[pmIdx]
          IN  m.Name # NameLabel =>
                 /\ m.Name \in DOMAIN pmLabels
                 /\ pmLabels[m.Name] = ExpectedConstraint(m)
                 /\ (m.Value = "prod" /\ m.Type = MatchNotEqual)
                       => pmLabels[m.Name] = "~(?!prod).*"
                 /\ (m.Value = "prod|dev" /\ m.Type = MatchRegexp)
                       => pmLabels[m.Name] = "~prod|dev"
                 /\ (m.Value = "prod|dev" /\ m.Type = MatchNotRegexp)
                       => pmLabels[m.Name] = "~(?!prod|dev).*"
                 /\ (m.Value = "prod" /\ m.Type = MatchEqual)
                       => pmLabels[m.Name] = "prod"
    /\ pmPc = "returned" =>
          \A k \in 1..Len(pmMatchers) :
             (/\ pmMatchers[k].Name # NameLabel
              /\ \A j \in (k + 1)..Len(pmMatchers) : pmMatchers[j].Name # pmMatchers[k].Name)
             => /\ pmMatchers[k].Name \in DOMAIN pmLabels
                /\ pmLabels[pmMatchers[k].Name] = ExpectedConstraint(pmMatchers[k])

\* processMatchers has returned a negated regex matcher on env, wrapped in the lookahead
C1_Witness ==
    /\ pmPc = "returned"
    /\ Len(pmMatchers) = 2
    /\ pmMatchers[1].Name = NameLabel
    /\ pmMatchers[2] = [Name |-> "env", Value |-> "prod|dev", Type |-> MatchNotRegexp]
    /\ pmLabels = [n \in {"env"} |-> "~(?!prod|dev).*"]

\* C2: the label map never has the key "__name__"; the value of a name
\* matcher is returned as className only; without a name matcher className
\* is "", and the empty list gives the empty map.
C2_NameNeverAKey ==
    /\ NameLabel \notin DOMAIN pmLabels
    /\ pmPc = "returned" =>
          /\ ~HasName(pmMatchers, NameLabel) => pmClassName = ""
          /\ HasName(pmMatchers, NameLabel) =>
                \E k \in 1..Len(pmMatchers) :
                   pmMatchers[k].Name = NameLabel /\ pmClassName = pmMatchers[k].Value
          /\ pmMatchers = <<>> => (pmClassName = "" /\ pmLabels = EmptyMap)
          /\ DOMAIN pmLabels =
                {pmMatchers[k].Name : k \in 1..Len(pmMatchers)} \ {NameLabel}

\* processMatchers has returned a name matcher's value as className and a label beside it
C2_Witness ==
    /\ pmPc = "returned"
    /\ pmMatchers = <<[Name |-> NameLabel, Value |-> "test_metric", Type |-> MatchEqual],
                      [Name |-> "env", Value |-> "prod", Type |-> MatchEqual]>>
    /\ pmClassName = "test_metric"
    /\ pmLabels = [n \in {"env"} |-> "prod"]

\* C3: of several matchers with the same label name the last one in list
\* order decides: className is the value of the last "__name__" matcher and
\* every entry of the map is the encoding of the last matcher of that name.
C3_LastMatcherWins ==
    pmPc = "returned" =>
       /\ HasName(pmMatchers, NameLabel)
             => pmClassName = pmMatchers[LastIndexOf(pmMatchers, NameLabel)].Value
       /\ \A n \in DOMAIN pmLabels :
             /\ HasName(pmMatchers, n)
             /\ pmLabels[n] = ExpectedConstraint(pmMatchers[LastIndexOf(pmMatchers, n)])

\* processMatchers has returned for two matchers on env whose encodings differ
C3_Witness ==
    /\ pmPc = "returned"
    /\ Len(pmMatchers) = 2
    /\ pmMatchers[1] = [Name |-> "env", Value |-> "prod", Type |-> MatchEqual]
    /\ pmMatchers[2] = [Name |-> "env", Value |-> "prod|dev", Type |-> MatchRegexp]
    /\ pmLabels["env"] = "~prod|dev"

(***************************************************************************)
(* Claims about applyTimeRangeLimits (SpecClamp)                           *)
(***************************************************************************)
\* the three cases of the clamp for bounds lowerBound and upperBound, each
\* taken on its own
ThreeCases(requested, lowerBound, upperBound, returned) ==
    /\ requested < lowerBound => returned = lowerBound
    /\ requested > upperBound => returned = upperBound
    /\ (~(requested < lowerBound) /\ ~(requested > upperBound)) => returned = requested

\* C4 as stated: with lowerBound = now - maxLookback and upperBound =
\* now - minLookback, for a clock value now between the two readings, the
\* result is lowerBound when the requested time is before lowerBound,
\* upperBound when it is after upperBound, and the requested time otherwise.
C4_AsStated ==
    atPc = "returned" =>
       \E now \in atNow1..atNow2 :
          ThreeCases(atStart, now - atMax, now - atMin, atResult)

\* C4 (amended): with lowerBound = first clock reading - maxLookback and
\* upperBound = second clock reading - minLookback, the result is lowerBound
\* when the requested time is before lowerBound; otherwise upperBound when it
\* is after upperBound; otherwise the requested time. With 24h and 7d
\* (168h): T-30d gives T-7d, T-1h gives T-24h and T-3d is unchanged.
C4_ClampLowerFirst ==
    atPc = "returned" =>
       LET lowerBound == atNow1 - atMax
           upperBound == atNow2 - atMin
       IN  /\ atStart < lowerBound => atResult = lowerBound
           /\ (atStart >= lowerBound /\ atStart > upperBound) => atResult = upperBound
           /\ (atStart >= lowerBound /\ atStart <= upperBound) => atResult = atStart
           /\ (cfgMin = "24h" /\ cfgMax = "168h") =>
                 /\ atStart = atNow1 - 720 => atResult = atNow1 - 168
                 /\ atStart = atNow1 - 1 => atResult = atNow2 - 24
                 /\ atStart = atNow1 - 72 => atResult = atStart

\* a start one hour back has been clamped to 24 hours back under 24h/168h
C4_Witness ==
    /\ atPc = "returned"
    /\ cfgMin = "24h"
    /\ cfgMax = "168h"
    /\ atStart = atNow1 - 1
    /\ atNow2 = atNow1
    /\ atResult = atNow1 - 24

(***************************************************************************)
(* Claims about the handlers (Spec)                                        *)
(***************************************************************************)
\* the request carries a start parameter that is a number
StartGiven == start # "" /\ ~ParseInt(start).err

\* C5: when metric-name discovery is given a start time, every backend call
\* of the request carries that start time clamped by applyTimeRangeLimits,
\* not an absent or an unclamped one.
C5_ClampedStartForwarded ==
    (handler \in {"FindClassnames", "FindClassnamesHandler"} /\ StartGiven) =>
       \A k \in 1..Len(calls) :
          /\ calls[k].start # ZeroTime
          /\ \E tick \in 0..MaxTick :
                calls[k].start =
                   ApplyTimeRangeLimits(ParseInt(start).n, cfgMin, cfgMax, Epoch, Epoch + tick)

\* C6: FindLabels with no match[] answers success with an empty list and
\* makes no backend call.
C6_NoMatchNoQuery ==
    (handler = "FindLabels" /\ token # "" /\ form = <<>>) =>
       /\ pc = "done"
       /\ resp.code = 200
       /\ resp.status = "success"
       /\ resp.data = <<>>
       /\ calls = <<>>

\* FindLabels has answered a request with a token and no match[]
C6_Witness ==
    /\ handler = "FindLabels"
    /\ token = "READ"
    /\ form = <<>>
    /\ pc = "done"
    /\ resp = Success(<<>>)
    /\ calls = <<>>

\* every series the backend has returned to this request
ReturnedSeries ==
    UNION {{calls[k].reply.GTS[j] : j \in 1..Len(calls[k].reply.GTS)} : k \in 1..Len(calls)}

\* the label and attribute names seen on them, with "__name__", without ".app"
ObservedLabelNames ==
    ({NameLabel} \cup UNION {(DOMAIN g.Labels) \cup (DOMAIN g.Attrs) : g \in ReturnedSeries})
    \ {".app"}

\* C7: a successful FindLabels with at least one expression returns exactly
\* the names observed on the returned series plus "__name__", without
\* ".app": no entry twice, no entry that is not one of those names.
C7_LabelNamesExact ==
    (handler = "FindLabels" /\ pc = "done" /\ resp.code = 200 /\ Len(form) >= 1) =>
       /\ BagToSet(resp.data) = ObservedLabelNames
       /\ \A e \in BagToSet(resp.data) : CopiesIn(e, resp.data) = 1

\* the selector of each expression, written out
SelectorText(expr) ==
    CASE expr = ExprEnv -> "~.*{env=prod}"
      [] expr = ExprShort -> "abc{}"
      [] expr = ExprGood -> "abcdefg{env=~(?!prod).*}"
      [] expr = ExprPadded -> " abcdef {}"
      [] OTHER -> ""

\* C8: FindLabelsValues translates and queries only the first expression:
\* it makes at most one backend call, with the selector of expression 1, and
\* its response is decided by expression 1, the label and the backend's
\* answer to that call alone.
C8_OnlyFirstExpression ==
    (handler = "FindLabelsValues" /\ pc = "done" /\ token # "" /\ label # "" /\ Len(form) >= 1) =>
       /\ Len(calls) <= 1
       /\ ParseMetricSelector(form[1]).err # "" =>
             /\ calls = <<>>
             /\ resp = Failure(400, ParseMetricSelector(form[1]).err)
       /\ ParseMetricSelector(form[1]).err = "" =>
             /\ Len(calls) = 1
             /\ calls[1].selector = SelectorText(form[1])
             /\ resp = IF calls[1].reply.err # ""
                       THEN Failure(500, calls[1].reply.err)
                       ELSE Success(unique(CollectLabelValues(calls[1].reply.GTS, label)))

\* FindLabelsValues has answered a request with two different expressions with one call
C8_Witness ==
    /\ handler = "FindLabelsValues"
    /\ pc = "done"
    /\ form = <<ExprEnv, ExprGood>>
    /\ label = "env"
    /\ Len(calls) = 1
    /\ calls[1].selector = "~.*{env=prod}"
    /\ resp.code = 200

\* C9 as stated: FindLabelsValues with no match[] answers a validation
\* error, not a success, and makes no backend call.
C9_AsStated ==
    (handler = "FindLabelsValues" /\ pc = "done" /\ token # "" /\ label # "" /\ form = <<>>) =>
       /\ resp.status = "error"
       /\ resp.code \in {400, 422}
       /\ calls = <<>>

\* C9 (amended): FindLabelsValues with no match[] answers success with an
\* empty list, and makes no backend call.
C9_NoMatchEmptySuccess ==
    (handler = "FindLabelsValues" /\ token # "" /\ label # "" /\ form = <<>>) =>
       /\ pc = "done"
       /\ resp.code = 200
       /\ resp.status = "success"
       /\ resp.data = <<>>
       /\ calls = <<>>

\* FindLabelsValues has answered a request for label env with no match[]
C9_Witness ==
    /\ handler = "FindLabelsValues"
    /\ token = "READ"
    /\ label = "env"
    /\ form = <<>>
    /\ pc = "done"
    /\ resp.status = "success"
    /\ calls = <<>>

\* the values the claim collects from the series gtss for label l
ValuesOf(gtss, l) ==
    IF l = NameLabel
    THEN {gtss[k].Class : k \in 1..Len(gtss)}
    ELSE {gtss[k].Labels[l] : k \in {j \in 1..Len(gtss) : l \in DOMAIN gtss[j].Labels}}

\* C10: a successful FindLabelsValues for label L returns each value once,
\* and exactly the values collected from the returned series: the class name
\* when L is "__name__", else the value of label L of the series that carry L.
C10_ValuesOnceEach ==
    (handler = "FindLabelsValues" /\ pc = "done" /\ resp.code = 200 /\ Len(form) >= 1) =>
       /\ {resp.data[k] : k \in 1..Len(resp.data)} = ValuesOf(calls[1].reply.GTS, label)
       /\ \A i, j \in 1..Len(resp.data) : i # j => resp.data[i] # resp.data[j]

\* two series share the value of env and the response holds it once
C10_Witness ==
    /\ handler = "FindLabelsValues"
    /\ pc = "done"
    /\ label = "env"
    /\ Len(calls) = 1
    /\ calls[1].reply.GTS = <<GTS1, GTS2>>
    /\ resp.data = <<"prod">>

\* the request passed the checks that come before the matchers: it has a token
\* and its start parameter, when given, is a number
Admitted == token # "" /\ (start = "" \/ ~ParseInt(start).err)

\* the length of a name value once its surrounding white space is removed
TrimmedLength(v) ==
    CASE v = "abc" -> 3
      [] v = " abcdef " -> 6
      [] v = "abcdefg" -> 7
      [] v = DEFAULT_METRIC_SELECTOR -> 19

\* expression expr parses and has no name matcher, or has a name matcher whose
\* trimmed value is shorter than 7 characters and is not the default pattern
Rejectable(expr) ==
    LET parsed == ParseMetricSelector(expr)
        named == {k \in 1..Len(parsed.matchers) : parsed.matchers[k].Name = NameLabel}
    IN  /\ parsed.err = ""
        /\ \/ named = {}
           \/ \E k \in named :
                 /\ parsed.matchers[k].Value # DEFAULT_METRIC_SELECTOR
                 /\ TrimmedLength(parsed.matchers[k].Value) < 7

MetricNameHandlers == {"FindClassnames", "FindClassnamesHandler", "handleSeriesPost"}

\* C11: metric-name discovery answers a request with a validation error (400)
\* and makes no backend call when any of its expressions has no "__name__"
\* matcher or a "__name__" matcher whose trimmed value is shorter than 7
\* characters (and is not the default pattern): "abc" and " abcdef " are
\* refused; a request whose only expression names "abcdefg" is not refused
\* and is queried.
C11_ValidationBeforeQueries ==
    (handler \in MetricNameHandlers /\ token # "") =>
       /\ (\E k \in 1..Len(form) : Rejectable(form[k])) =>
             /\ pc = "done"
             /\ resp.status = "error"
             /\ resp.code = 400
             /\ calls = <<>>
       /\ (form = <<ExprGood>> /\ Admitted) =>
             /\ pc = "done" => (Len(calls) = 1 /\ resp.code \in {200, 500})
             /\ pc = "query" => resp = NoResponse

\* a request whose second expression pads a six-character name with spaces
\* has been refused without a backend call
C11_Witness ==
    /\ handler = "FindClassnamesHandler"
    /\ token = "READ"
    /\ form = <<ExprGood, ExprPadded>>
    /\ start = ""
    /\ pc = "done"
    /\ resp = Failure(400, "search must contain at least 3 characters")
    /\ calls = <<>>

\* C12: metric-name discovery called with no expression substitutes the one
\* default expression on the pattern "(http|prometheus).*" and makes exactly
\* one backend call, which carries the result-count cap 100; it does not
\* answer without querying.
C12_DefaultExpressionQueried ==
    (handler \in {"FindClassnames", "FindClassnamesHandler"} /\ Admitted /\ form = <<>>) =>
       /\ matchers = <<"{__name__=~'(http|prometheus).*'}">>
       /\ pc = "done" =>
             /\ Len(calls) = 1
             /\ calls[1].selector = IF label = "host" THEN "~(http|prometheus).*{host=~.*}"
                                    ELSE "~(http|prometheus).*{}"
             /\ calls[1].gcount = 100

SeriesHandlers == {"FindSeries", "handleSeriesPost"}

\* C13: series discovery requires at least one expression: a request with no
\* match[] is answered with a validation error (400 or 422) and no backend
\* call is made.
C13_SeriesNeedsExpression ==
    (/\ handler \in SeriesHandlers
     /\ form = <<>>
     /\ handler = "FindSeries" => token # "") =>
       /\ pc = "done"
       /\ resp.status = "error"
       /\ resp.code \in {400, 422}
       /\ resp.error = "no match[] parameter provided"
       /\ resp.data = <<>>
       /\ calls = <<>>

\* FindSeries has refused a request with a token and no match[]
C13_Witness ==
    /\ handler = "FindSeries"
    /\ token = "READ"
    /\ form = <<>>
    /\ pc = "done"
    /\ resp.code = 422
    /\ calls = <<>>

RECURSIVE ReturnedInOrder(_)
\* the series of the answers to the calls cs, in the order they were returned
ReturnedInOrder(cs) ==
    IF cs = <<>> THEN <<>>
    ELSE ReturnedInOrder(SubSeq(cs, 1, Len(cs) - 1)) \o cs[Len(cs)].reply.GTS

\* C14: every record of a successful series-discovery response has no key
\* ".app", and its "__name__" entry is the class name of the backend record
\* it was built from.
C14_SeriesRecordsClean ==
    (handler \in SeriesHandlers /\ pc = "done" /\ resp.code = 200) =>
       LET returned == ReturnedInOrder(calls)
       IN  /\ Len(resp.data) = Len(returned)
           /\ \A k \in 1..Len(resp.data) :
                 /\ ".app" \notin DOMAIN resp.data[k]
                 /\ resp.data[k][NameLabel] = returned[k].Class

\* the expressions the handler gets to parse: the first one only in
\* FindLabelsValues, the substituted default for an empty match[] in the
\* later FindClassnames, else all of match[]
ParsedExprs ==
    CASE handler = "FindLabelsValues" -> IF form = <<>> THEN <<>> ELSE <<form[1]>>
      [] handler \in MetricNameHandlers /\ rev = "part_000" /\ form = <<>> ->
            <<"{__name__=~'(http|prometheus).*'}">>
      [] OTHER -> form

ParseFails(expr) == ParseMetricSelector(expr).err # ""

\* C15: in every discovery endpoint the first matcher-parse failure or
\* backend failure ends the request: no backend call follows a failed call,
\* none is made for an expression at or after one that fails to parse (none
\* at all in metric-name discovery, which parses everything first), and the
\* response to a failure is an error without any record or value of the
\* expressions served before it.
C15_FailFast ==
    /\ \A k \in 1..(Len(calls) - 1) : calls[k].reply.err = ""
    /\ (pc = "done" /\ Len(calls) > 0 /\ calls[Len(calls)].reply.err # "") =>
          /\ resp.status = "error"
          /\ resp.code = 500
          /\ resp.data = <<>>
    /\ \A k \in 1..Len(ParsedExprs) :
          ParseFails(ParsedExprs[k]) =>
             /\ Len(calls) < k
             /\ handler \in MetricNameHandlers => calls = <<>>
             /\ pc = "done" => (resp.status = "error" /\ resp.data = <<>>)

\* FindSeries collected a series for its first expression, the backend failed
\* on the second, and the response is the error alone
C15_Witness ==
    /\ handler = "FindSeries"
    /\ pc = "done"
    /\ Len(form) = 2
    /\ Len(calls) = 2
    /\ calls[1].reply.GTS = <<GTS2>>
    /\ calls[2].reply.err # ""
    /\ acc # <<>>
    /\ resp.code = 500
    /\ resp.data = <<>>

\* text sub occurs in text s
Contains(s, sub) ==
    \E i \in 1..(Len(s) - Len(sub) + 1) : SubSeq(s, i, i + Len(sub) - 1) = sub

\* C16: when the backend call fails, the endpoint answers with the
\* internal-error category (500) and a message in which the backend's error
\* text does not appear, so that the response is the same whatever that
\* text is.
C16_BackendErrorNotLeaked ==
    (pc = "done" /\ Len(calls) > 0 /\ calls[Len(calls)].reply.err # "") =>
       /\ resp.code = 500
       /\ resp.status = "error"
       /\ \A e \in BackendErrors : ~Contains(resp.error, e)

\* expression k is the first one that fails to parse
FirstParseFailure(k) ==
    /\ ParseFails(ParsedExprs[k])
    /\ \A j \in 1..(k - 1) : ~ParseFails(ParsedExprs[j])

\* the handler got as far as parsing expression k: in metric-name discovery
\* nothing before it was refused; elsewhere the expressions before it were
\* all served by the backend
ParseReached(k) ==
    /\ token # ""
    /\ IF handler \in MetricNameHandlers
       THEN /\ rev = "part_000" => (start = "" \/ ~ParseInt(start).err)
            /\ \A j \in 1..(k - 1) : ~Rejectable(ParsedExprs[j])
       ELSE /\ handler = "FindLabelsValues" => label # ""
            /\ Len(calls) = k - 1
            /\ \A j \in 1..Len(calls) : calls[j].reply.err = ""

\* a response that reports the parser's error
MatcherSyntaxError(out) ==
    /\ out.status = "error"
    /\ out.code \in {400, 422}
    /\ Contains(out.error, "parse error: unexpected end of input")

\* C17: no error of the matcher parser is discarded: when the parse of an
\* expression fails, the request ends with a matcher-syntax error; every
\* backend call is made for an expression that parsed, and the query loop of
\* metric-name discovery, which parses each expression a second time without
\* looking at the error, only ever runs on expressions that parse.
C17_ParseErrorsSurface ==
    /\ \A k \in 1..Len(calls) :
          k <= Len(ParsedExprs) /\ ~ParseFails(ParsedExprs[k])
    /\ (handler \in MetricNameHandlers /\ pc = "query") =>
          \A k \in 1..Len(matchers) : ~ParseFails(matchers[k])
    /\ \A k \in 1..Len(ParsedExprs) :
          (pc = "done" /\ FirstParseFailure(k) /\ ParseReached(k)) => MatcherSyntaxError(resp)

\* metric-name discovery has refused a request for the syntax of its second expression
C17_Witness ==
    /\ handler = "FindClassnamesHandler"
    /\ token = "READ"
    /\ form = <<ExprGood, ExprBad>>
    /\ pc = "done"
    /\ resp = Failure(400, "invalid matcher format: parse error: unexpected end of input")
    /\ calls = <<>>

\* the selector built for an expression that passes the validation, written
\* out: without and with the label of the route /label/host/values
BuiltSelectorText(expr, uriLabel) ==
    CASE expr = ExprGood ->
            IF uriLabel = "host" THEN "abcdefg{env=~(?!prod).*,host=~.*}"
            ELSE "abcdefg{env=~(?!prod).*}"
      [] expr = ExprDefault ->
            IF uriLabel = "host" THEN "(http|prometheus).*{host=~.*}"
            ELSE "(http|prometheus).*{}"

\* C18: every selector metric-name discovery sends to the backend is the
\* built selector with the regex marker "~" in front, also when the name
\* matcher has the operator Equal.
C18_ForcedRegexSelector ==
    handler \in MetricNameHandlers =>
       \A k \in 1..Len(calls) :
          /\ calls[k].selector = "~" \o BuiltSelectorText(matchers[k], label)
          /\ Head(calls[k].selector) = "~"

\* a name matcher with the operator Equal has been sent as a regex
C18_Witness ==
    /\ handler = "FindClassnames"
    /\ form = <<ExprGood>>
    /\ label = NameLabel
    /\ ParseMetricSelector(form[1]).matchers[1].Type = MatchEqual
    /\ Len(calls) = 1
    /\ calls[1].selector = "~abcdefg{env=~(?!prod).*}"

(***************************************************************************)
(* Further claims about applyTimeRangeLimits (SpecClamp)                   *)
(***************************************************************************)
\* the hours a configuration string stands for, for those that are durations
ConfiguredHours(str) ==
    CASE str = "1h" -> 1
      [] str = "24h" -> 24
      [] str = "168h" -> 168
      [] str = "200h" -> 200

\* the configuration strings that time.ParseDuration refuses
NotADuration == {"7d", ""}

\* C19: when the configured minimum or maximum lookback is not a duration,
\* applyTimeRangeLimits uses 24 hours for the minimum and 7 days (168 hours)
\* for the maximum, each whatever the other is, and still returns the start
\* time clamped with the durations in use.
C19_DefaultsOnParseFailure ==
    atPc = "returned" =>
       /\ atMin = IF cfgMin \in NotADuration THEN 24 ELSE ConfiguredHours(cfgMin)
       /\ atMax = IF cfgMax \in NotADuration THEN 168 ELSE ConfiguredHours(cfgMax)
       /\ atResult \in {atStart, atNow1 - atMax, atNow2 - atMin}
       /\ atStart < atNow1 - atMax => atResult = atNow1 - atMax
       /\ (atStart >= atNow1 - atMax /\ atStart > atNow2 - atMin) => atResult = atNow2 - atMin

\* with a minimum of "7d", which is not a duration, a start one hour back has
\* been moved to 24 hours back, the maximum "200h" being used as configured
C19_Witness ==
    /\ atPc = "returned"
    /\ cfgMin = "7d"
    /\ cfgMax = "200h"
    /\ atMin = 24
    /\ atMax = 200
    /\ atStart = atNow1 - 1
    /\ atResult = atNow2 - 24

(***************************************************************************)
(* Further claims about processMatchers (SpecTranslate)                    *)
(***************************************************************************)
\* what the translation rules give for the list ms, from ms alone
ExpectedClassName(ms) ==
    IF HasName(ms, NameLabel) THEN ms[LastIndexOf(ms, NameLabel)].Value ELSE ""

ExpectedLabels(ms) ==
    [n \in {ms[k].Name : k \in 1..Len(ms)} \ {NameLabel} |->
        ExpectedConstraint(ms[LastIndexOf(ms, n)])]

\* what a call returns is decided by its argument alone, whatever was called
\* before, and a second call on the same list returns what the first returned
SameInputSameOutput ==
    pmPc = "returned" =>
       /\ pmClassName = ExpectedClassName(pmMatchers)
       /\ pmLabels = ExpectedLabels(pmMatchers)
       /\ (pmPrev # NoCall /\ pmPrev.matchers = pmMatchers) =>
             (pmPrev.className = pmClassName /\ pmPrev.labels = pmLabels)

\* no step of a call writes to the list it was given
InputUnchanged == pmPc \in {"call", "range"} => pmMatchers' = pmMatchers

\* C20: processMatchers is a pure function: two applications to the same
\* list return the same className and the same label map, what a call
\* returns depends on its argument only, and the list is left unchanged.
C20_Pure == [](SameInputSameOutput) /\ [][InputUnchanged]_vars

\* a second call on the same two matchers has returned what the first returned
C20_Witness ==
    /\ pmPc = "returned"
    /\ pmPrev # NoCall
    /\ Len(pmMatchers) = 2
    /\ pmPrev.matchers = pmMatchers
    /\ pmPrev.className = pmClassName
    /\ pmPrev.labels = pmLabels
    /\ pmClassName = "test_metric"
    /\ DOMAIN pmLabels = {"env"}

(***************************************************************************)
(* The window of applyTimeRangeLimits (SpecClamp)                          *)
(***************************************************************************)
\* C21 as stated: for every start time and every pair of lookbacks in use,
\* the pairs with the minimum above the maximum included, the value returned
\* lies in [now - maxLookback, now - minLookback], for a clock value now
\* between the two readings.
C21_AsStated ==
    atPc = "returned" =>
       \E now \in atNow1..atNow2 :
          now - atMax <= atResult /\ atResult <= now - atMin

\* C21 (amended): with lowerBound = first clock reading - maxLookback and
\* upperBound = second clock reading - minLookback, the value returned lies
\* in [lowerBound, upperBound] whenever lowerBound <= upperBound; when the
\* minimum lookback exceeds the maximum so that lowerBound > upperBound, no
\* time lies in the window and the value returned is one of the two bounds:
\* lowerBound for a start time before it, else upperBound.
C21_InWindowWhenOrdered ==
    atPc = "returned" =>
       LET lowerBound == atNow1 - atMax
           upperBound == atNow2 - atMin
       IN  /\ lowerBound <= upperBound =>
                (lowerBound <= atResult /\ atResult <= upperBound)
           /\ lowerBound > upperBound =>
                atResult = IF atStart < lowerBound THEN lowerBound ELSE upperBound

\* under 1h/200h, with the clock advancing between the two readings, a start
\* 30 days back has been moved to the lower bound, 200 hours back
C21_Witness ==
    /\ atPc = "returned"
    /\ cfgMin = "1h"
    /\ cfgMax = "200h"
    /\ atNow2 = atNow1 + 1
    /\ atStart = atNow1 - 720
    /\ atResult = atNow1 - 200

(***************************************************************************)
(* The operator of a name matcher (SpecTranslate)                          *)
(***************************************************************************)
\* the list ms with the operator of its k-th matcher replaced by types[k]
\* wherever that matcher is a name matcher
WithNameOperators(ms, types) ==
    [k \in 1..Len(ms) |->
        IF ms[k].Name = NameLabel THEN [ms[k] EXCEPT !.Type = types[k]] ELSE ms[k]]

\* every list that differs from ms in the operators of its name matchers only
NameOperatorVariants(ms) ==
    {WithNameOperators(ms, types) : types \in [1..Len(ms) -> MatchTypes]}

\* C22: what processMatchers returns does not depend on the operator of a
\* "__name__" matcher: every list that differs from the argument only in the
\* operators of its name matchers gives the className and the label map that
\* were returned, hence the same selector.
C22_NameOperatorIgnored ==
    pmPc = "returned" =>
       \A other \in NameOperatorVariants(pmMatchers) :
          /\ processMatchers(other).className = pmClassName
          /\ processMatchers(other).labels = pmLabels
          /\ buildWarp10Selector(processMatchers(other).className,
                                 processMatchers(other).labels)
                = buildWarp10Selector(pmClassName, pmLabels)

\* a name matcher with the operator RegexNotMatch has given its bare value as
\* className, beside a label matcher
C22_Witness ==
    /\ pmPc = "returned"
    /\ pmMatchers = <<[Name |-> NameLabel, Value |-> "test_metric", Type |-> MatchNotRegexp],
                      [Name |-> "region", Value |-> "prod|dev", Type |-> MatchRegexp]>>
    /\ pmClassName = "test_metric"
    /\ pmLabels = [n \in {"region"} |-> "~prod|dev"]

====
